---- MODULE Spec2Model ----
(***************************************************************************)
(* Execution and conversion orchestration of the test-automation platform. *)
(*                                                                         *)
(* The persisted tables (TestScript, ExecutionResult), the robot-script    *)
(* files on disk and the request / worker threads that run                 *)
(* RobotFrameworkExecutor are the state; every route handler and every     *)
(* commit of a worker is one action.  Spec is the execution engine.        *)
(*                                                                         *)
(* The registry of recording sessions of playback.py and the capture       *)
(* processes of its recorders are the state of RecordingSpec (calls one    *)
(* after the other) and ConcurrentRecordingSpec (calls of concurrent       *)
(* request threads).                                                       *)
(*                                                                         *)
(* ConversionSpec is the translation of recorded scripts into robot        *)
(* artifacts together with the edits, uploads and deletions of scripts;    *)
(* FairSpec is Spec with fair scheduling of the background workers.        *)
(***************************************************************************)
EXTENDS Integers, Sequences, FiniteSets, TLC

(***************************************************************************)
(* Bounds of the model.                                                    *)
(***************************************************************************)
NumScripts == 2
MaxExecutions == 2
MaxTests == 1
NumThreads == 1
MaxRecorders == 2
NumRequests == 2
MaxLines == 2

ScriptIds == 1..NumScripts
Threads == 1..NumThreads
Requests == 1..NumRequests

(***************************************************************************)
(* Null values.  A nullable column keeps the type of its values: numbers   *)
(* use -1, strings "None", paths and directories the empty sequence,       *)
(* foreign keys 0 and timestamps a record whose set flag is FALSE.  A      *)
(* timestamp carries whether it is set and whether it is timezone-aware;   *)
(* the clock does not advance within the model, so every duration is 0.    *)
(***************************************************************************)
NoneNum == -1
NoneStr == "None"
NoPath == << >>
NoId == 0
NoneTime == [set |-> FALSE, aware |-> FALSE]

VARIABLES
    scripts,              \* TestScript table: ScriptIds -> row
    files,                \* robot script files that exist on disk (paths)
    executions,           \* ExecutionResult table: sequence of rows, id = index
    threads,              \* request / worker threads running the executor
    USE_BACKGROUND_JOBS,  \* Config.USE_BACKGROUND_JOBS
    response,             \* last response an execution route returned
    runs,                 \* per execution id: the result the executor obtained
    durationWrites        \* per execution id: commits that wrote duration_seconds

VARIABLES
    active_recordings,    \* playback._active_recordings: session key -> recorder
    recorders,            \* PlaywrightRecorder objects created so far, id = index
    requests,             \* request threads inside a function of playback.py
    session_result        \* last result a function of playback.py returned

VARIABLES
    conversions,          \* per script: the conversion call working on it
    conversion_result     \* last result convert_script_sync / _async returned

execVars == << scripts, files, executions, threads,
               USE_BACKGROUND_JOBS, response, runs, durationWrites >>
recVars == << active_recordings, recorders, requests, session_result >>
convVars == << conversions, conversion_result >>
vars == << execVars, recVars, convVars >>

(***************************************************************************)
(* ExecutionStatus                                                         *)
(***************************************************************************)
PENDING == "pending"
RUNNING == "running"
PASSED == "passed"
FAILED == "failed"
ERROR == "error"
CANCELLED == "cancelled"
ExecutionStatus == {PENDING, RUNNING, PASSED, FAILED, ERROR, CANCELLED}
Terminal == {PASSED, FAILED, ERROR}

(***************************************************************************)
(* Time.  datetime.now(timezone.utc) is timezone-aware; a DateTime column  *)
(* declared without timezone=True stores and returns naive values.         *)
(***************************************************************************)
utcnow == [set |-> TRUE, aware |-> TRUE]

\* (completed_at - started_at).total_seconds()
Elapsed(started, completed) == 0

\* What a DateTime(timezone=True) column would return: the value as written.
PersistKeepTz(ts) == ts

Persist(ts) == IF ts.set THEN [ts EXCEPT !.aware = FALSE] ELSE ts

\* started_at.replace(tzinfo=timezone.utc) when tzinfo is None
Normalize(ts) == IF ts.set /\ ~ts.aware THEN [ts EXCEPT !.aware = TRUE] ELSE ts

\* datetime subtraction raises TypeError for an aware and a naive operand
CanSubtract(a, b) == a.aware = b.aware

(***************************************************************************)
(* app/utils/fs.py: sanitize_filename, on names as character sequences.    *)
(***************************************************************************)
KeepChars == {"a", "b", "c", "1", "_", "-", "."}
StripChars == {".", " "}
Unnamed == << "u", "n", "n", "a", "m", "e", "d" >>

RECURSIVE LStrip(_)
LStrip(s) == IF s # << >> /\ Head(s) \in StripChars THEN LStrip(Tail(s)) ELSE s

RECURSIVE RStrip(_)
RStrip(s) ==
    IF s # << >> /\ s[Len(s)] \in StripChars
    THEN RStrip(SubSeq(s, 1, Len(s) - 1))
    ELSE s

sanitize_filename(filename) ==
    IF filename = << >> THEN Unnamed
    ELSE LET replaced == [i \in 1..Len(filename) |->
                            IF filename[i] \in KeepChars THEN filename[i] ELSE "_"]
             sanitized == RStrip(LStrip(replaced))
         IN  IF sanitized = << >> THEN Unnamed
             ELSE IF Head(sanitized) = "."
                  THEN << "f", "i", "l", "e", "_" >> \o Tail(sanitized)
                  ELSE sanitized

\* robot_dir / f"{script_name_safe}.robot" inside the one project directory
RobotFilePath(name) == sanitize_filename(name) \o << ".", "r", "o", "b", "o", "t" >>

(***************************************************************************)
(* TestScript rows                                                         *)
(***************************************************************************)
NameA == << "a", " ", "b" >>
NameB == << "a", "_", "b" >>
NameC == << "a", "b", "c" >>

\* names of the scripts of the project: unique, and valid for
\* validate_script_name; the second one may or may not sanitize to the
\* file name of the first
ScriptName(s, second) ==
    IF s = 1 THEN NameA
    ELSE IF s = 2 THEN second
    ELSE NameC \o [i \in 1..(s - 2) |-> "1"]

NewScript(name) ==
    [present |-> TRUE, name |-> name, conversion_status |-> "pending",
     robot_script_path |-> NoPath, has_playwright |-> TRUE,
     conversion_error |-> NoneStr]

\* TestScript.query.get(script_id)
ScriptExists(s) == s \in ScriptIds /\ scripts[s].present

\* Path(script.robot_script_path).exists()
RobotFileExists(row) ==
    row.robot_script_path # NoPath /\ row.robot_script_path \in files

\* the data model's executability invariant of a TestScript
Executable(s) ==
    /\ ScriptExists(s)
    /\ scripts[s].conversion_status = "completed"
    /\ RobotFileExists(scripts[s])

(***************************************************************************)
(* ExecutionResult rows                                                    *)
(***************************************************************************)
NewExecution(script_id, is_suite) ==
    [script_id |-> script_id,
     status |-> PENDING,
     started_at |-> Persist(utcnow),       \* column default, applied on INSERT
     completed_at |-> NoneTime,
     duration_seconds |-> NoneNum,
     tests_total |-> 0,
     tests_passed |-> 0,
     tests_failed |-> 0,
     pass_rate |-> NoneNum,
     error_message |-> NoneStr,
     output_xml_path |-> NoPath,
     is_suite_run |-> is_suite,
     suite_execution_id |-> NoId]          \* suite run that created the row

ExecIds == 1..Len(executions)


(***************************************************************************)
(* Results of one runner invocation                                        *)
(***************************************************************************)
\* run_cli either returns a return code or raises
RunOutcomes == {"rc0", "rc1", "raise"}
ReturnCode(run) == IF run = "rc0" THEN 0 ELSE 1

\* get_model on output.xml: suite statistics, no suite, or an exception
NoStats == [kind |-> "nosuite", total |-> 0, passed |-> 0, failed |-> 0]
ParseOutcomes ==
    { [kind |-> "stats", total |-> n, passed |-> p, failed |-> f] :
        n \in 0..MaxTests, p \in 0..MaxTests, f \in 0..MaxTests }
    \cup {NoStats, [NoStats EXCEPT !.kind = "raise"]}
Statistics == {st \in ParseOutcomes : st.kind # "stats" \/ st.passed + st.failed = st.total}

ErrorResult(msg, called, valid) ==
    [success |-> FALSE, error |-> msg, return_code |-> NoneNum,
     tests_total |-> 0, tests_passed |-> 0, tests_failed |-> 0,
     all_passed |-> FALSE, output_xml_path |-> NoPath,
     valid_scripts |-> valid, \* scripts whose robot file was found
     invoked |-> called,      \* run_cli was called
     returned |-> FALSE]      \* run_cli returned a return code
NoResult == ErrorResult(NoneStr, FALSE, {})

parse_robot_results(return_code, xml_exists, parse, output_dir, valid) ==
    LET result == [success |-> TRUE, error |-> NoneStr, return_code |-> return_code,
                   tests_total |-> 0, tests_passed |-> 0, tests_failed |-> 0,
                   all_passed |-> return_code = 0,
                   output_xml_path |-> IF xml_exists
                                       THEN output_dir \o << "output.xml" >>
                                       ELSE NoPath,
                   valid_scripts |-> valid, invoked |-> TRUE, returned |-> TRUE]
    IN  IF ~xml_exists THEN result
        ELSE IF parse.kind = "stats"
             THEN [result EXCEPT !.tests_total = parse.total,
                                 !.tests_passed = parse.passed,
                                 !.tests_failed = parse.failed,
                                 !.all_passed = (parse.failed = 0)]
        ELSE IF parse.kind = "nosuite" THEN result
        ELSE \* get_model raised: fallback to the return code
             [result EXCEPT !.tests_total = 1,
                            !.tests_passed = IF return_code = 0 THEN 1 ELSE 0,
                            !.tests_failed = IF return_code = 0 THEN 0 ELSE 1]

RunDirOfKind(prefix, exec) == << prefix >>

\* results_dir / run_id with run_id = f"run_{execution.id}_{timestamp}" or
\* f"suite_{execution.id}_{timestamp}".  Every project is taken to
\* sanitize to the same results_dir, and every run to start within the
\* same second, so neither appears in the directory's name.
RunDir(prefix, exec) == << prefix, exec >>

run_robot_script(s, exec, run, xml_exists, parse) ==
    IF ~ScriptExists(s)
    THEN ErrorResult("Instance has been deleted", FALSE, {})  \* expired row is gone
    ELSE IF ~RobotFileExists(scripts[s])
    THEN ErrorResult("Robot Framework script file not found", FALSE, {})
    ELSE IF run = "raise"
    THEN ErrorResult("runner raised", TRUE, {s})
    ELSE parse_robot_results(ReturnCode(run), xml_exists, parse, RunDir("run", exec),
                             {s})

run_robot_suite(ids, exec, run, xml_exists, parse) ==
    IF \E s \in ids : ~ScriptExists(s)
    THEN ErrorResult("Instance has been deleted", FALSE, {})
    ELSE LET valid_scripts == {s \in ids : RobotFileExists(scripts[s])}
         IN  IF valid_scripts = {}
             THEN ErrorResult("No valid Robot Framework scripts found", FALSE, {})
             ELSE IF run = "raise"
             THEN ErrorResult("runner raised", TRUE, valid_scripts)
             ELSE parse_robot_results(ReturnCode(run), xml_exists, parse,
                                      RunDir("suite", exec), valid_scripts)

(***************************************************************************)
(* The update both execute_script and execute_suite commit after the run.  *)
(* Only the assigned columns are written; the others keep what the table   *)
(* holds.  started_at is re-read from the table (the commit that marked    *)
(* the row running expired it) and both timestamps are made aware.         *)
(***************************************************************************)
CompletedRowWithDetail(row, result) ==
    LET timed == [row EXCEPT !.completed_at = Persist(utcnow),
                             !.duration_seconds =
                                 Elapsed(Normalize(row.started_at), utcnow)]
    IN  [timed EXCEPT !.status = IF ~result.success THEN ERROR
                                 ELSE IF result.all_passed THEN PASSED ELSE FAILED,
                      !.tests_passed = result.tests_passed,
                      !.tests_failed = result.tests_failed,
                      !.tests_total = result.tests_total,
                      !.output_xml_path = result.output_xml_path,
                      !.error_message = IF result.success THEN "completed"
                                        ELSE result.error]

CompletedRow(row, result) ==
    LET completed_at == utcnow
        started == Normalize(row.started_at)
        completed == Normalize(completed_at)
        timed == IF started.set /\ completed.set
                 THEN [row EXCEPT !.completed_at = Persist(completed_at),
                                  !.duration_seconds = Elapsed(started, completed)]
                 ELSE [row EXCEPT !.completed_at = Persist(completed_at)]
    IN  IF result.success
        THEN [timed EXCEPT !.status = IF result.all_passed THEN PASSED ELSE FAILED,
                           !.tests_passed = result.tests_passed,
                           !.tests_failed = result.tests_failed,
                           !.tests_total = result.tests_total,
                           !.output_xml_path = result.output_xml_path]
        ELSE [timed EXCEPT !.status = ERROR,
                           !.error_message = result.error]

WritesDuration(row) == row.started_at.set

(***************************************************************************)
(* Threads                                                                 *)
(***************************************************************************)
IdleThread ==
    [pc |-> "idle", kind |-> "none", script_id |-> NoId, script_ids |-> {},
     exec |-> NoId, sync |-> FALSE,
     entry_file_missing |-> FALSE,   \* robot file absent when the executor was entered
     overran |-> FALSE]              \* the runner call has outlasted the invocation timeout

\* rows that accepted requests will still insert
PendingInserts == Cardinality({t \in Threads : threads[t].pc = "async"})
CanAccept == Len(executions) + PendingInserts < MaxExecutions

Respond(op, ok, err) == [op |-> op, success |-> ok, error |-> err]


(***************************************************************************)
(* playback.py: recording sessions.  A PlaywrightRecorder owns at most one *)
(* capture process; the process is running, has terminated without having  *)
(* been waited for ("zombie": getpgid and killpg still succeed), or has     *)
(* been reaped by poll() or wait() ("reaped": its pid is gone).             *)
(***************************************************************************)
PairA == [project_name |-> << "a", "b", "c" >>,
          script_name |-> << "a", "a", "a", "_", "b", "b", "b" >>]
PairB == [project_name |-> << "a", "b", "c", "_", "a", "a", "a" >>,
          script_name |-> << "b", "b", "b" >>]
PairC == [project_name |-> << "a", "b", "c" >>, script_name |-> << "c", "c", "c" >>]
RecordingPairs == {PairA, PairB, PairC}

\* session_key = f"{project_name}_{script_name}"
SessionKey(project_name, script_name) == project_name \o << "_" >> \o script_name
NoKey == << >>

\* the recorder after a successful start_recording()
NewRecorder(session_key, project_name, script_name) ==
    [session_key |-> session_key,
     project_name |-> sanitize_filename(project_name),
     script_name |-> sanitize_filename(script_name),
     process |-> "running", is_recording |-> TRUE]

\* self.process.poll() is None
Polls(rec) == rec.process = "running"

\* the process table after poll() or wait() has collected a dead process
Reap(process) == IF process = "zombie" THEN "reaped" ELSE process

cleanupFlagOnly(rec) == [rec EXCEPT !.is_recording = FALSE]

\* PlaywrightRecorder.cleanup: SIGKILL to the process group of a live process
cleanup(rec) ==
    [rec EXCEPT !.process = IF Polls(rec) THEN "zombie" ELSE Reap(@),
                !.is_recording = FALSE]

\* PlaywrightRecorder.get_status, for a recorder that has a process
get_status(rec) == IF Polls(rec) THEN "recording" ELSE "completed"

RecorderIds == 1..Len(recorders)
Tracked(session_key) == session_key \in DOMAIN active_recordings
NoSessions == [k \in {} |-> NoId]

IdleRequest ==
    [pc |-> "idle", session_key |-> NoKey,
     project_name |-> NoKey, script_name |-> NoKey,   \* arguments of the call
     recorder |-> NoId,     \* stop: recorder read from the registry
     prior |-> NoId,        \* start: live recorder the key had at the call
     tracked |-> {},        \* cleanup_all: recorders in the registry at the call
     live |-> {}]           \* cleanup_all: those whose process was alive

Result(op, session_key, success, error) ==
    [op |-> op, session_key |-> session_key, success |-> success, error |-> error,
     status |-> NoneStr,        \* get_recording_status
     script_content |-> FALSE,  \* stop: the result carries script content
     tracked |-> FALSE,         \* the key was in the registry at the call
     produced |-> FALSE,        \* stop: the output file had content
     live |-> FALSE,            \* the process of a tracked recorder was alive
     changed |-> FALSE,         \* the call changed the registry
     project_name |-> NoKey,    \* get_recording_status: arguments of the call
     script_name |-> NoKey,
     signals |-> << >>,         \* stop: signals sent to the process, in order
     timed_out |-> FALSE]       \* stop: the bounded wait expired

(***************************************************************************)
(* conversion.py and routes/recording.py: translation of a recorded        *)
(* Playwright script into a robot artifact.  A robot script is the         *)
(* sequence of its lines; only the section headers matter.                 *)
(***************************************************************************)
SettingsHeader == "*** Settings ***"
TestCasesHeader == "*** Test Cases ***"
RobotLines == {SettingsHeader, TestCasesHeader, "New Page"}

\* result['robot_code'] of the translation service: any text
RobotCodes == UNION {[1..n -> RobotLines] : n \in 0..MaxLines}

\* '*** Settings ***' not in robot_script
HasSection(robot_script, section) ==
    \E i \in 1..Len(robot_script) : robot_script[i] = section

enhance_robot_script(robot_script) ==
    IF ~HasSection(robot_script, SettingsHeader)
    THEN << SettingsHeader, "Library    Browser", "" >> \o robot_script
    ELSE robot_script

\* what convert_script_sync does after the status is 'processing'
ConversionOutcomes ==
    {"playwright_missing", "read_failed", "conversion_failed",
     "write_failed", "written"}

\* name: script.name as the call loaded it
IdleConversion == [pc |-> "idle", sync |-> FALSE, name |-> << >>]

ConversionResult(s, success, error, robot_script, raised) ==
    [script_id |-> s, success |-> success, error |-> error,
     robot_script |-> robot_script,
     raised |-> raised]      \* the call ended with an exception, not a result

ConversionInit ==
    /\ conversions = [s \in ScriptIds |-> IdleConversion]
    /\ conversion_result = ConversionResult(NoId, TRUE, NoneStr, << >>, FALSE)

RecordingInit ==
    /\ active_recordings = NoSessions
    /\ recorders = << >>
    /\ requests = [t \in Requests |-> IdleRequest]
    /\ session_result = Result("none", NoKey, TRUE, NoneStr)

Init ==
    /\ RecordingInit
    /\ ConversionInit
    /\ \E name \in {NameB, NameC} :
         scripts = [s \in ScriptIds |-> NewScript(ScriptName(s, name))]
    /\ files = {}
    /\ executions = << >>
    /\ threads = [t \in Threads |-> IdleThread]
    /\ USE_BACKGROUND_JOBS \in BOOLEAN
    /\ response = Respond("none", TRUE, NoneStr)
    /\ runs = << >>
    /\ durationWrites = << >>


(***************************************************************************)
(* execution.py: RobotFrameworkExecutor.execute_script and execute_suite,  *)
(* one action per commit (the first commit, which inserts the row, is part *)
(* of the action that enters the executor).  The run itself (reading the script rows and the *)
(* files, calling the runner, parsing) belongs to the action of the commit *)
(* that follows it: between the two, no other operation writes a column    *)
(* the completion writes or a value the run has read.                      *)
(***************************************************************************)
InsertExecution(t, thread, script_id, is_suite, missing) ==
    /\ executions' = Append(executions, NewExecution(script_id, is_suite))
    /\ runs' = Append(runs, NoResult)
    /\ durationWrites' = Append(durationWrites, 0)
    /\ threads' = [threads EXCEPT ![t] =
                     [thread EXCEPT !.pc = "pending", !.exec = Len(executions) + 1,
                                    !.entry_file_missing = missing]]

MarkRunningCompleted(t) ==
    /\ executions' = [executions EXCEPT ![threads[t].exec] =
                        [@ EXCEPT !.status = RUNNING,
                                  !.started_at = Persist(utcnow),
                                  !.completed_at = Persist(utcnow)]]
    /\ threads' = [threads EXCEPT ![t] = [@ EXCEPT !.pc = "running"]]

MarkRunning(t) ==
    /\ executions' = [executions EXCEPT ![threads[t].exec] =
                        [@ EXCEPT !.status = RUNNING,
                                  !.started_at = Persist(utcnow)]]
    /\ threads' = [threads EXCEPT ![t] = [@ EXCEPT !.pc = "running"]]

CommitCompletion(t, op, result) ==
    LET e == threads[t].exec
        row == CompletedRow(executions[e], result)
    IN  /\ executions' = [executions EXCEPT ![e] = row]
        /\ runs' = [runs EXCEPT ![e] = result]
        /\ durationWrites' = [durationWrites EXCEPT ![e] =
                                IF WritesDuration(executions[e]) THEN @ + 1 ELSE @]
        /\ threads' = [threads EXCEPT ![t] = IdleThread]
        /\ response' = IF threads[t].sync
                       THEN Respond(op, TRUE, row.status)
                       ELSE response

(***************************************************************************)
(* routes/execution.py: execute_single_script                              *)
(***************************************************************************)
ExecuteSingleScript(t, s) ==
    /\ threads[t].pc = "idle"
    /\ CanAccept
    /\ UNCHANGED << scripts, files, USE_BACKGROUND_JOBS >>
    /\ IF ~ScriptExists(s)
       THEN /\ response' = Respond("execute_single_script", FALSE, "404")
            /\ UNCHANGED << threads, executions, runs, durationWrites >>
       ELSE IF scripts[s].conversion_status # "completed"
               \/ scripts[s].robot_script_path = NoPath
       THEN /\ response' = Respond("execute_single_script", FALSE,
                                   "Script is not ready for execution")
            /\ UNCHANGED << threads, executions, runs, durationWrites >>
       ELSE IF ~RobotFileExists(scripts[s])
       THEN /\ response' = Respond("execute_single_script", FALSE,
                                   "Robot Framework script file not found")
            /\ UNCHANGED << threads, executions, runs, durationWrites >>
       ELSE IF USE_BACKGROUND_JOBS
       THEN /\ threads' = [threads EXCEPT ![t] =
                             [IdleThread EXCEPT !.pc = "async", !.kind = "script",
                                                !.script_id = s]]
            /\ response' = Respond("execute_single_script", TRUE, "background")
            /\ UNCHANGED << executions, runs, durationWrites >>
       ELSE \* executor.execute_script(script, current_user), up to its first commit
            /\ InsertExecution(t, [IdleThread EXCEPT !.kind = "script",
                                                     !.script_id = s, !.sync = TRUE],
                               s, FALSE, ~RobotFileExists(scripts[s]))
            /\ UNCHANGED response
    /\ UNCHANGED << recVars, convVars >>

(***************************************************************************)
(* execution.py: execute_script_async                                      *)
(***************************************************************************)
execute_script_async(t) ==
    /\ threads[t].pc = "async"
    /\ threads[t].kind = "script"
    /\ IF ScriptExists(threads[t].script_id)
       THEN \* executor.execute_script(script, user), up to its first commit
            InsertExecution(t, threads[t], threads[t].script_id, FALSE,
                            ~RobotFileExists(scripts[threads[t].script_id]))
       ELSE /\ threads' = [threads EXCEPT ![t] = IdleThread]   \* logged only
            /\ UNCHANGED << executions, runs, durationWrites >>
    /\ UNCHANGED << scripts, files, USE_BACKGROUND_JOBS, response >>
    /\ UNCHANGED << recVars, convVars >>

ExecuteScriptStart(t) ==
    /\ threads[t].pc = "pending"
    /\ threads[t].kind = "script"
    /\ MarkRunning(t)
    /\ UNCHANGED << scripts, files, USE_BACKGROUND_JOBS,
                    response, runs, durationWrites >>
    /\ UNCHANGED << recVars, convVars >>

(***************************************************************************)
(* run_cli is called in the worker's own thread with no timeout around it: *)
(* when the call outlasts the invocation timeout nothing happens in the    *)
(* program, the worker stays inside run_cli.                               *)
(***************************************************************************)
RunnerOverruns(t) ==
    /\ threads[t].pc = "running"
    /\ ~threads[t].overran
    /\ \/ threads[t].kind = "suite"
       \/ /\ ScriptExists(threads[t].script_id)
          /\ RobotFileExists(scripts[threads[t].script_id])
    /\ threads' = [threads EXCEPT ![t] = [@ EXCEPT !.overran = TRUE]]
    /\ UNCHANGED << scripts, files, executions, USE_BACKGROUND_JOBS,
                    response, runs, durationWrites >>
    /\ UNCHANGED << recVars, convVars >>

ExecuteScriptComplete(t) ==
    /\ threads[t].pc = "running"
    /\ threads[t].kind = "script"
    /\ \E run \in RunOutcomes, xml_exists \in BOOLEAN, parse \in Statistics :
         CommitCompletion(t, "execute_single_script",
                          run_robot_script(threads[t].script_id, threads[t].exec,
                                           run, xml_exists, parse))
    /\ UNCHANGED << scripts, files, USE_BACKGROUND_JOBS >>
    /\ UNCHANGED << recVars, convVars >>

(***************************************************************************)
(* routes/execution.py: execute_project_suite                              *)
(***************************************************************************)
ExecuteProjectSuite(t, selected_script_ids) ==
    LET found == IF selected_script_ids # {}
                 THEN {s \in selected_script_ids :
                         ScriptExists(s) /\ scripts[s].conversion_status = "completed"}
                 ELSE {s \in ScriptIds :
                         ScriptExists(s) /\ scripts[s].conversion_status = "completed"}
    IN  /\ threads[t].pc = "idle"
        /\ CanAccept
        /\ UNCHANGED << scripts, files, USE_BACKGROUND_JOBS >>
        /\ IF selected_script_ids # {}
              /\ Cardinality(found) # Cardinality(selected_script_ids)
           THEN /\ response' = Respond("execute_project_suite", FALSE,
                                  "Some selected scripts are not available for execution")
                /\ UNCHANGED << threads, executions, runs, durationWrites >>
           ELSE IF found = {}
           THEN /\ response' = Respond("execute_project_suite", FALSE,
                                  "No executable scripts found in the project")
                /\ UNCHANGED << threads, executions, runs, durationWrites >>
           ELSE IF USE_BACKGROUND_JOBS
           THEN /\ threads' = [threads EXCEPT ![t] =
                                 [IdleThread EXCEPT !.pc = "async", !.kind = "suite",
                                                    !.script_ids = selected_script_ids]]
                /\ response' = Respond("execute_project_suite", TRUE, "background")
                /\ UNCHANGED << executions, runs, durationWrites >>
           ELSE \* executor.execute_suite(scripts, current_user), up to its first commit
                /\ InsertExecution(t, [IdleThread EXCEPT !.kind = "suite",
                                                         !.script_ids = found,
                                                         !.sync = TRUE],
                                   NoId, TRUE, FALSE)
                /\ UNCHANGED response
        /\ UNCHANGED << recVars, convVars >>

(***************************************************************************)
(* execution.py: execute_suite_async.  With no script ids it reads         *)
(* project.test_scripts, an attribute Project does not have (the relation  *)
(* is Project.scripts): the AttributeError is caught and logged.           *)
(***************************************************************************)
execute_suite_async(t) ==
    LET script_ids == threads[t].script_ids
        loaded == {s \in script_ids : ScriptExists(s)}
        completed == {s \in loaded : scripts[s].conversion_status = "completed"}
    IN  /\ threads[t].pc = "async"
        /\ threads[t].kind = "suite"
        /\ IF script_ids = {} \/ completed = {}
           THEN \* AttributeError, or the warning and return: logged only
                /\ threads' = [threads EXCEPT ![t] = IdleThread]
                /\ UNCHANGED << executions, runs, durationWrites >>
           ELSE \* executor.execute_suite(scripts, user), up to its first commit
                InsertExecution(t, [threads[t] EXCEPT !.script_ids = completed],
                                NoId, TRUE, FALSE)
        /\ UNCHANGED << scripts, files, USE_BACKGROUND_JOBS, response >>
        /\ UNCHANGED << recVars, convVars >>

ExecuteSuiteStart(t) ==
    /\ threads[t].pc = "pending"
    /\ threads[t].kind = "suite"
    /\ MarkRunning(t)
    /\ UNCHANGED << scripts, files, USE_BACKGROUND_JOBS,
                    response, runs, durationWrites >>
    /\ UNCHANGED << recVars, convVars >>

ExecuteSuiteComplete(t) ==
    /\ threads[t].pc = "running"
    /\ threads[t].kind = "suite"
    /\ \E run \in RunOutcomes, xml_exists \in BOOLEAN, parse \in Statistics :
         CommitCompletion(t, "execute_project_suite",
                          run_robot_suite(threads[t].script_ids, threads[t].exec,
                                          run, xml_exists, parse))
    /\ UNCHANGED << scripts, files, USE_BACKGROUND_JOBS >>
    /\ UNCHANGED << recVars, convVars >>

(***************************************************************************)
(* routes/execution.py: run_script.  The row is committed in pending; the  *)
(* handler then assigns status in memory and assigns ended_at, a read-only *)
(* property of ExecutionResult, which raises AttributeError: the request   *)
(* ends with a server error and the uncommitted assignment is discarded.   *)
(***************************************************************************)
RunScriptAssigning(s) ==
    /\ ScriptExists(s)
    /\ CanAccept
    /\ executions' = Append(executions,
                            [NewExecution(s, FALSE) EXCEPT !.status = PASSED])
    /\ runs' = Append(runs, NoResult)
    /\ durationWrites' = Append(durationWrites, 0)
    /\ response' = Respond("run_script", TRUE, "executed successfully")
    /\ UNCHANGED << scripts, files, threads, USE_BACKGROUND_JOBS >>
    /\ UNCHANGED << recVars, convVars >>

RunScript(s) ==
    /\ ScriptExists(s)
    /\ CanAccept
    /\ executions' = Append(executions, NewExecution(s, FALSE))
    /\ runs' = Append(runs, NoResult)
    /\ durationWrites' = Append(durationWrites, 0)
    /\ response' = Respond("run_script", FALSE, "500 AttributeError")
    /\ UNCHANGED << scripts, files, threads, USE_BACKGROUND_JOBS >>
    /\ UNCHANGED << recVars, convVars >>

(***************************************************************************)
(* routes/execution.py: cancel_execution.  completed_at is the aware value *)
(* just assigned, started_at the value loaded from the table; a TypeError  *)
(* from their subtraction is caught and the session rolled back.           *)
(***************************************************************************)
CancellableAny == ExecutionStatus

\* execution.status not in [ExecutionStatus.PENDING, ExecutionStatus.RUNNING]
Cancellable == {PENDING, RUNNING}

CancelExecution(e) ==
    /\ e \in ExecIds
    /\ UNCHANGED << scripts, files, threads, USE_BACKGROUND_JOBS, runs >>
    /\ IF executions[e].status \notin Cancellable
       THEN /\ response' = Respond("cancel_execution", FALSE,
                              "Execution cannot be cancelled in its current state")
            /\ UNCHANGED << executions, durationWrites >>
       ELSE LET completed_at == utcnow
                started_at == executions[e].started_at
            IN  IF started_at.set /\ ~CanSubtract(completed_at, started_at)
                THEN /\ response' = Respond("cancel_execution", FALSE,
                                       "Failed to cancel execution: TypeError")
                     /\ UNCHANGED << executions, durationWrites >>
                ELSE /\ executions' = [executions EXCEPT ![e] =
                          [@ EXCEPT !.status = ERROR,
                                    !.error_message = "Cancelled by user",
                                    !.completed_at = Persist(completed_at),
                                    !.duration_seconds =
                                        IF started_at.set
                                        THEN Elapsed(started_at, completed_at)
                                        ELSE @]]
                     /\ durationWrites' = [durationWrites EXCEPT ![e] =
                                             IF started_at.set THEN @ + 1 ELSE @]
                     /\ response' = Respond("cancel_execution", TRUE,
                                            "Execution cancelled successfully")
    /\ UNCHANGED << recVars, convVars >>

(***************************************************************************)
(* routes/projects.py: delete_script.  TestScript.executions has no delete *)
(* cascade, so deleting the script sets script_id of its executions to     *)
(* NULL and keeps the rows.                                                *)
(***************************************************************************)
DeletedScript ==
    [present |-> FALSE, name |-> << >>, conversion_status |-> "pending",
     robot_script_path |-> NoPath, has_playwright |-> FALSE,
     conversion_error |-> NoneStr]

DeleteScript(s) ==
    /\ ScriptExists(s)
    /\ files' = files \ {scripts[s].robot_script_path}
    /\ scripts' = [scripts EXCEPT ![s] = DeletedScript]
    /\ executions' = [e \in ExecIds |->
                        IF executions[e].script_id = s
                        THEN [executions[e] EXCEPT !.script_id = NoId]
                        ELSE executions[e]]
    /\ UNCHANGED << threads, USE_BACKGROUND_JOBS, response, runs,
                    durationWrites >>
    /\ UNCHANGED << recVars, convVars >>

(***************************************************************************)
(* routes/projects.py: edit_script, action update_content                  *)
(***************************************************************************)
EditScript(s, write_ok) ==
    LET path == IF scripts[s].robot_script_path = NoPath
                THEN RobotFilePath(scripts[s].name)
                ELSE scripts[s].robot_script_path
    IN  /\ ScriptExists(s)
        /\ write_ok                                  \* otherwise rolled back
        /\ files' = files \cup {path}
        /\ scripts' = [scripts EXCEPT ![s] =
                         [@ EXCEPT !.robot_script_path = path,
                                   !.conversion_status = "completed"]]
        /\ UNCHANGED << executions, threads, USE_BACKGROUND_JOBS,
                        response, runs, durationWrites >>
        /\ UNCHANGED << recVars, convVars >>

Next ==
    \/ \E t \in Threads, s \in ScriptIds : ExecuteSingleScript(t, s)
    \/ \E t \in Threads : execute_script_async(t)
    \/ \E t \in Threads : ExecuteScriptStart(t)
    \/ \E t \in Threads : RunnerOverruns(t)
    \/ \E t \in Threads : ExecuteScriptComplete(t)
    \/ \E t \in Threads, ids \in SUBSET ScriptIds : ExecuteProjectSuite(t, ids)
    \/ \E t \in Threads : execute_suite_async(t)
    \/ \E t \in Threads : ExecuteSuiteStart(t)
    \/ \E t \in Threads : ExecuteSuiteComplete(t)
    \/ \E s \in ScriptIds : RunScript(s)
    \/ \E e \in 1..MaxExecutions : CancelExecution(e)
    \/ \E s \in ScriptIds : DeleteScript(s)
    \/ \E s \in ScriptIds, write_ok \in BOOLEAN : EditScript(s, write_ok)

Spec == Init /\ [][Next]_vars

(***************************************************************************)
(* The background workers are daemon threads of the server process: every  *)
(* step a worker can take it eventually takes, and the runner returns.     *)
(***************************************************************************)
WorkerFairness ==
    \A t \in Threads :
      /\ WF_vars(execute_script_async(t))
      /\ WF_vars(ExecuteScriptStart(t))
      /\ WF_vars(ExecuteScriptComplete(t))
      /\ WF_vars(execute_suite_async(t))
      /\ WF_vars(ExecuteSuiteStart(t))
      /\ WF_vars(ExecuteSuiteComplete(t))

FairSpec == Spec /\ WorkerFairness

(***************************************************************************)
(* playback.py: the module-level session functions.  A function that       *)
(* reads the registry and later writes it takes two steps, so that calls   *)
(* of different request threads can interleave between them; with          *)
(* serialized = TRUE a call is entered only when no other call is under    *)
(* way.                                                                    *)
(***************************************************************************)
MayEnter(t, serialized) ==
    /\ requests[t].pc = "idle"
    /\ serialized => \A u \in Requests : requests[u].pc = "idle"

\* lines 211-215: the key is computed, a tracked recorder is cleaned up
start_recording_session(t, project_name, script_name, serialized) ==
    LET session_key == SessionKey(project_name, script_name)
        old == IF Tracked(session_key) THEN active_recordings[session_key] ELSE NoId
    IN  /\ MayEnter(t, serialized)
        /\ recorders' = IF old # NoId
                        THEN [recorders EXCEPT ![old] = cleanup(@)]
                        ELSE recorders
        /\ requests' = [requests EXCEPT ![t] =
                          [IdleRequest EXCEPT
                              !.pc = "launch", !.session_key = session_key,
                              !.project_name = project_name,
                              !.script_name = script_name,
                              !.prior = IF old # NoId /\ Polls(recorders[old])
                                        THEN old ELSE NoId]]
        /\ UNCHANGED << active_recordings, session_result, execVars, convVars >>

\* lines 217-224: PlaywrightRecorder(...).start_recording(), and the
\* registration of the recorder when the launch succeeded
start_recording(t, launched) ==
    LET session_key == requests[t].session_key
        recorder == Len(recorders) + 1
    IN  /\ requests[t].pc = "launch"
        /\ IF launched
           THEN /\ Len(recorders) < MaxRecorders
                /\ recorders' = Append(recorders,
                                        NewRecorder(session_key,
                                                    requests[t].project_name,
                                                    requests[t].script_name))
                /\ active_recordings' =
                       [k \in DOMAIN active_recordings \cup {session_key} |->
                           IF k = session_key THEN recorder ELSE active_recordings[k]]
                /\ session_result' = [Result("start_recording_session", session_key,
                                     TRUE, NoneStr)
                                 EXCEPT !.tracked = Tracked(session_key),
                                        !.live = requests[t].prior # NoId,
                                        !.changed = TRUE]
           ELSE /\ session_result' = [Result("start_recording_session", session_key,
                                     FALSE, "Popen failed")
                                 EXCEPT !.tracked = Tracked(session_key),
                                        !.live = requests[t].prior # NoId]
                /\ UNCHANGED << recorders, active_recordings >>
        /\ requests' = [requests EXCEPT ![t] = IdleRequest]
        /\ UNCHANGED << execVars, convVars >>

\* lines 228-233: the lookup of the recorder
stop_recording_session(t, project_name, script_name, serialized) ==
    LET session_key == SessionKey(project_name, script_name)
    IN  /\ MayEnter(t, serialized)
        /\ IF ~Tracked(session_key)
           THEN /\ session_result' = Result("stop_recording_session", session_key, FALSE,
                                    "No active recording session found")
                /\ UNCHANGED requests
           ELSE /\ requests' = [requests EXCEPT ![t] =
                                  [IdleRequest EXCEPT
                                      !.pc = "stopping", !.session_key = session_key,
                                      !.project_name = project_name,
                                      !.script_name = script_name,
                                      !.recorder = active_recordings[session_key]]]
                /\ UNCHANGED session_result
        /\ UNCHANGED << active_recordings, recorders, execVars, convVars >>

GracefulSignal(is_windows) == IF is_windows THEN "CTRL_BREAK_EVENT" ELSE "SIGTERM"
ForcefulSignal(is_windows) == IF is_windows THEN "kill" ELSE "SIGKILL"

StopSignalsForcefulFirst(is_windows, timed_out) ==
    << ForcefulSignal(is_windows) >>
       \o (IF timed_out THEN << GracefulSignal(is_windows) >> ELSE << >>)

\* lines 97-112: the signals stop_recording sends, in order; timed_out is
\* the outcome of process.wait(timeout=10)
StopSignals(is_windows, timed_out) ==
    << GracefulSignal(is_windows) >>
       \o (IF timed_out THEN << ForcefulSignal(is_windows) >> ELSE << >>)

\* lines 234-239: recorder.stop_recording() and del of the registry entry.
\* On POSIX stop_recording signals os.getpgid(pid), which raises
\* ProcessLookupError for a reaped process; on Windows send_signal does
\* nothing for a process whose return code is known.
stop_recording(t, is_windows, has_content, timed_out) ==
    LET session_key == requests[t].session_key
        r == requests[t].recorder
        rec == recorders[r]
        signalled == rec.is_recording /\ (is_windows \/ rec.process # "reaped")
        sent == IF signalled THEN StopSignals(is_windows, timed_out) ELSE << >>
        base == [Result("stop_recording_session", session_key, FALSE, NoneStr)
                    EXCEPT !.tracked = TRUE, !.produced = has_content,
                           !.live = Polls(rec), !.signals = sent,
                           !.timed_out = timed_out]
        stopped == IF ~rec.is_recording
                   THEN [base EXCEPT !.error = "No active recording session"]
                   ELSE IF ~is_windows /\ rec.process = "reaped"
                   THEN [base EXCEPT !.error = "ProcessLookupError"]
                   ELSE IF has_content
                   THEN [base EXCEPT !.success = TRUE, !.script_content = TRUE]
                   ELSE [base EXCEPT !.error = "No script content was generated"]
    IN  /\ requests[t].pc = "stopping"
        \* wait(timeout=10) can only expire for a process that is running
        /\ timed_out => (signalled /\ rec.process = "running")
        /\ recorders' = IF signalled
                        THEN [recorders EXCEPT ![r] =
                                [@ EXCEPT !.process = "reaped",
                                          !.is_recording = FALSE]]
                        ELSE recorders
        /\ IF Tracked(session_key)
           THEN /\ active_recordings' =
                       [k \in DOMAIN active_recordings \ {session_key} |->
                           active_recordings[k]]
                /\ session_result' = [stopped EXCEPT !.changed = TRUE]
           ELSE /\ UNCHANGED active_recordings      \* del raises KeyError
                /\ session_result' = [base EXCEPT !.error = "KeyError"]
        /\ requests' = [requests EXCEPT ![t] = IdleRequest]
        /\ UNCHANGED << execVars, convVars >>

\* lines 241-248; poll() reaps a process that has terminated
get_recording_status(project_name, script_name) ==
    LET session_key == SessionKey(project_name, script_name)
        r == active_recordings[session_key]
    IN  /\ IF ~Tracked(session_key)
           THEN /\ session_result' = [Result("get_recording_status", session_key, TRUE,
                                     NoneStr)
                                 EXCEPT !.status = "not_found",
                                        !.project_name = project_name,
                                        !.script_name = script_name]
                /\ UNCHANGED recorders
           ELSE /\ session_result' = [Result("get_recording_status", session_key, TRUE,
                                     NoneStr)
                                 EXCEPT !.status = get_status(recorders[r]),
                                        !.project_name = project_name,
                                        !.script_name = script_name,
                                        !.tracked = TRUE,
                                        !.live = Polls(recorders[r])]
                /\ recorders' = [recorders EXCEPT ![r] =
                                   [@ EXCEPT !.process = Reap(@)]]
        /\ UNCHANGED << active_recordings, requests, execVars, convVars >>

\* lines 252-253: cleanup() of every recorder in the registry
cleanup_all_sessions(t, serialized) ==
    LET tracked == {active_recordings[k] : k \in DOMAIN active_recordings}
    IN  /\ MayEnter(t, serialized)
        /\ recorders' = [r \in RecorderIds |->
                            IF r \in tracked THEN cleanup(recorders[r])
                            ELSE recorders[r]]
        /\ requests' = [requests EXCEPT ![t] =
                          [IdleRequest EXCEPT
                              !.pc = "clear", !.tracked = tracked,
                              !.live = {r \in tracked : Polls(recorders[r])}]]
        /\ UNCHANGED << active_recordings, session_result, execVars, convVars >>

\* line 254: _active_recordings.clear()
clear_sessions(t) ==
    /\ requests[t].pc = "clear"
    /\ active_recordings' = NoSessions
    /\ session_result' = [Result("cleanup_all_sessions", NoKey, TRUE, NoneStr)
                     EXCEPT !.tracked = requests[t].tracked # {},
                            !.live = requests[t].live # {},
                            !.changed = active_recordings # NoSessions]
    /\ requests' = [requests EXCEPT ![t] = IdleRequest]
    /\ UNCHANGED << recorders, execVars, convVars >>

\* the user closes the codegen window: the capture process exits
CaptureExits(r) ==
    /\ r \in RecorderIds
    /\ recorders[r].process = "running"
    /\ recorders' = [recorders EXCEPT ![r] = [@ EXCEPT !.process = "zombie"]]
    /\ UNCHANGED << active_recordings, requests, session_result, execVars, convVars >>

RecordingStep ==
    \/ \E t \in Requests, launched \in BOOLEAN : start_recording(t, launched)
    \/ \E t \in Requests, is_windows \in BOOLEAN, has_content \in BOOLEAN,
          timed_out \in BOOLEAN :
          stop_recording(t, is_windows, has_content, timed_out)
    \/ \E pair \in RecordingPairs :
          get_recording_status(pair.project_name, pair.script_name)
    \/ \E t \in Requests : clear_sessions(t)
    \/ \E r \in 1..MaxRecorders : CaptureExits(r)

\* calls of the session functions one after the other
RecordingNext ==
    \/ \E t \in Requests, pair \in RecordingPairs :
          start_recording_session(t, pair.project_name, pair.script_name, TRUE)
    \/ \E t \in Requests, pair \in RecordingPairs :
          stop_recording_session(t, pair.project_name, pair.script_name, TRUE)
    \/ \E t \in Requests : cleanup_all_sessions(t, TRUE)
    \/ RecordingStep

\* calls of the session functions from concurrent request threads
ConcurrentRecordingNext ==
    \/ \E t \in Requests, pair \in RecordingPairs :
          start_recording_session(t, pair.project_name, pair.script_name, FALSE)
    \/ \E t \in Requests, pair \in RecordingPairs :
          stop_recording_session(t, pair.project_name, pair.script_name, FALSE)
    \/ \E t \in Requests : cleanup_all_sessions(t, FALSE)
    \/ RecordingStep

\* one initial state of the tables is enough for the recording sessions
RecordingStart == Init /\ USE_BACKGROUND_JOBS /\ scripts[2].name = NameC

RecordingSpec == RecordingStart /\ [][RecordingNext]_vars

ConcurrentRecordingSpec == RecordingStart /\ [][ConcurrentRecordingNext]_vars

(***************************************************************************)
(* routes/recording.py: conversion of a script.  stop_recording and        *)
(* trigger_conversion start it, in a background thread or inside the       *)
(* request.  convert_script_sync commits twice: 'processing' on entry and  *)
(* the outcome at the end; the reads, the translation request and the      *)
(* file write in between belong to the second commit's action.  One        *)
(* conversion per script is in progress at a time.                         *)
(***************************************************************************)
MarkProcessing(s, sync) ==
    /\ scripts' = [scripts EXCEPT ![s] =
                     [@ EXCEPT !.conversion_status = "processing",
                               !.conversion_error = NoneStr]]
    /\ conversions' = [conversions EXCEPT ![s] =
                         [pc |-> "processing", sync |-> sync,
                          name |-> scripts[s].name]]

trigger_conversion(s) ==
    /\ conversions[s].pc = "idle"
    /\ ScriptExists(s)                 \* get_or_404
    /\ scripts[s].has_playwright       \* 'No Playwright script found to convert'
    /\ IF USE_BACKGROUND_JOBS
       THEN /\ conversions' = [conversions EXCEPT ![s] =
                                 [IdleConversion EXCEPT !.pc = "queued"]]
            /\ UNCHANGED scripts
       ELSE MarkProcessing(s, TRUE)
    /\ UNCHANGED << files, executions, threads, USE_BACKGROUND_JOBS, response,
                    runs, durationWrites, conversion_result >>
    /\ UNCHANGED recVars

\* the background thread enters convert_script_sync
convert_script_async(s) ==
    /\ conversions[s].pc = "queued"
    /\ IF ~ScriptExists(s)
       THEN /\ conversion_result' =
                   ConversionResult(s, FALSE, "Script not found", << >>, FALSE)
            /\ conversions' = [conversions EXCEPT ![s] = IdleConversion]
            /\ UNCHANGED scripts
       ELSE /\ MarkProcessing(s, FALSE)
            /\ UNCHANGED conversion_result
    /\ UNCHANGED << files, executions, threads, USE_BACKGROUND_JOBS, response,
                    runs, durationWrites >>
    /\ UNCHANGED recVars

\* the row a failed conversion commits
FailedConversion(row, error) ==
    [row EXCEPT !.conversion_status = "failed", !.conversion_error = error]

\* convert_script_sync from the commit of 'processing' to its return.  When
\* the row was deleted meanwhile, the commit of the outcome updates no row
\* and raises; the handler assigns 'failed' and commits again, which raises
\* out of convert_script_sync.  convert_script_async catches that.
convert_script_sync(s, outcome, robot_code) ==
    LET robot_script == enhance_robot_script(robot_code)
        robot_file_path == RobotFilePath(conversions[s].name)
        written == outcome = "written"
        error == IF outcome = "playwright_missing"
                 THEN "Playwright script file not found"
                 ELSE IF outcome = "read_failed"
                 THEN "Failed to read Playwright script"
                 ELSE IF outcome = "conversion_failed"
                 THEN "AI conversion failed"
                 ELSE "Failed to save Robot script"
    IN  /\ conversions[s].pc = "processing"
        /\ conversions' = [conversions EXCEPT ![s] = IdleConversion]
        /\ files' = IF written THEN files \cup {robot_file_path} ELSE files
        /\ IF ~ScriptExists(s)
           THEN /\ conversion_result' =
                       ConversionResult(s, FALSE, "StaleDataError", << >>,
                                        conversions[s].sync)
                /\ UNCHANGED scripts
           ELSE IF written
           THEN /\ scripts' = [scripts EXCEPT ![s] =
                                 [@ EXCEPT !.robot_script_path = robot_file_path,
                                           !.conversion_status = "completed",
                                           !.conversion_error = NoneStr]]
                /\ conversion_result' =
                       ConversionResult(s, TRUE, NoneStr, robot_script, FALSE)
           ELSE /\ scripts' = [scripts EXCEPT ![s] = FailedConversion(@, error)]
                /\ conversion_result' =
                       ConversionResult(s, FALSE, error, << >>, FALSE)
        /\ UNCHANGED << executions, threads, USE_BACKGROUND_JOBS, response,
                        runs, durationWrites >>
        /\ UNCHANGED recVars

(***************************************************************************)
(* routes/projects.py: upload_script.  The name is the file's stem, made   *)
(* unique among the names of the project by a numeric suffix; the row is   *)
(* created 'completed' and the file written under the sanitized name.      *)
(***************************************************************************)
NameTaken(name) == \E s \in ScriptIds : scripts[s].present /\ scripts[s].name = name

Digits == << "1", "2", "3", "4", "5", "6", "7", "8", "9" >>

RECURSIVE UniqueName(_, _, _)
UniqueName(original_name, script_name, counter) ==
    IF NameTaken(script_name) /\ counter <= NumScripts
    THEN UniqueName(original_name, original_name \o << "_", Digits[counter] >>,
                    counter + 1)
    ELSE script_name

upload_script(s, stem, write_ok) ==
    LET script_name == UniqueName(stem, stem, 1)
        robot_file_path == RobotFilePath(script_name)
    IN  /\ ~scripts[s].present                    \* a new row
        /\ conversions[s].pc = "idle"
        /\ write_ok                               \* otherwise rolled back
        /\ files' = files \cup {robot_file_path}
        /\ scripts' = [scripts EXCEPT ![s] =
                         [NewScript(script_name) EXCEPT
                            !.conversion_status = "completed",
                            !.robot_script_path = robot_file_path,
                            !.has_playwright = FALSE]]
        /\ UNCHANGED << executions, threads, USE_BACKGROUND_JOBS, response,
                        runs, durationWrites >>
        /\ UNCHANGED << recVars, convVars >>

ConversionNext ==
    \/ \E s \in ScriptIds : trigger_conversion(s)
    \/ \E s \in ScriptIds : convert_script_async(s)
    \/ \E s \in ScriptIds, outcome \in ConversionOutcomes,
          robot_code \in RobotCodes :
         convert_script_sync(s, outcome, robot_code)
    \/ \E s \in ScriptIds, write_ok \in BOOLEAN : EditScript(s, write_ok)
    \/ \E s \in ScriptIds : DeleteScript(s)
    \/ \E s \in ScriptIds, stem \in {NameA, NameB}, write_ok \in BOOLEAN :
         upload_script(s, stem, write_ok)

ConversionSpec == Init /\ [][ConversionNext]_vars



(***************************************************************************)
(* Properties                                                              *)
(***************************************************************************)
IsTerminal(e) == executions[e].status \in Terminal

\* the execution has been completed by the executor (its run is recorded)
Completed(e) == IsTerminal(e) /\ runs[e] # NoResult

\* C1: once the persisted status of an ExecutionResult is passed, failed or
\* error, no later operation changes its status or any other column.
C1_TerminalImmutable ==
    [][\A e \in ExecIds : IsTerminal(e) => executions'[e] = executions[e]]_vars

\* C2: in every persisted state of every ExecutionResult, completed_at is
\* set if and only if the status is passed, failed or error.
C2_CompletedIffTerminal ==
    \A e \in ExecIds : executions[e].completed_at.set <=> IsTerminal(e)

\* a completed execution next to a row that run_script left behind
C2_Witness ==
    /\ response.op = "run_script"
    /\ \E e, f \in ExecIds :
         /\ IsTerminal(e) /\ executions[e].completed_at.set
         /\ executions[f].status = PENDING /\ ~executions[f].completed_at.set

\* C3: duration_seconds is set if and only if completed_at is set, and it
\* is written by at most one commit in the lifetime of the row.
C3_DurationOnce ==
    \A e \in ExecIds :
        /\ (executions[e].duration_seconds # NoneNum) <=> executions[e].completed_at.set
        /\ durationWrites[e] <= 1
        /\ (durationWrites[e] = 1) <=> (executions[e].duration_seconds # NoneNum)

\* the worker completed a row after a cancel request on it had been answered
C3_Witness ==
    /\ response = Respond("cancel_execution", FALSE,
                          "Failed to cancel execution: TypeError")
    /\ \E e \in ExecIds : Completed(e) /\ durationWrites[e] = 1

\* C4: an ExecutionResult is created for a script only if, at that moment,
\* the script is converted ('completed') and its robot file exists.
C4_OnlyExecutableAccepted ==
    [][\A e \in 1..Len(executions') :
          (e > Len(executions) /\ ~executions'[e].is_suite_run)
              => Executable(executions'[e].script_id)]_vars

\* C5: when the executor is entered for a script whose robot file is
\* missing, its ExecutionResult is never in status running.
C5_NoRunningForMissingFile ==
    \A t \in Threads :
        (threads[t].kind = "script" /\ threads[t].exec # NoId
         /\ threads[t].entry_file_missing)
            => executions[threads[t].exec].status # RUNNING

\* C6: for every ExecutionResult that execute_script completes: passed only
\* if the runner returned and tests_failed = 0, failed only if the runner
\* returned and tests_failed >= 1, error only if the runner did not return.
C6_StatusMatchesOutcome ==
    \A e \in ExecIds :
        (Completed(e) /\ ~executions[e].is_suite_run) =>
            /\ executions[e].status = PASSED =>
                   (runs[e].returned /\ executions[e].tests_failed = 0)
            /\ executions[e].status = FAILED =>
                   (runs[e].returned /\ executions[e].tests_failed >= 1)
            /\ executions[e].status = ERROR => ~runs[e].returned

\* C7: when the runner returns 0 and there is no output.xml, the row has
\* tests_total = 1, tests_passed = 1, tests_failed = 0 and status passed.
C7_FallbackWithoutOutputXml ==
    \A e \in ExecIds :
        (Completed(e) /\ runs[e].returned /\ runs[e].return_code = 0
         /\ runs[e].output_xml_path = NoPath) =>
            /\ executions[e].tests_total = 1
            /\ executions[e].tests_passed = 1
            /\ executions[e].tests_failed = 0
            /\ executions[e].status = PASSED

\* the non-suite rows created during the suite run of row e
Constituents(e) ==
    {r \in ExecIds : ~executions[r].is_suite_run /\ executions[r].suite_execution_id = e}

RECURSIVE SumTotal(_)
SumTotal(S) ==
    IF S = {} THEN 0
    ELSE LET r == CHOOSE x \in S : TRUE
         IN  executions[r].tests_total + SumTotal(S \ {r})

RECURSIVE SumPassed(_)
SumPassed(S) ==
    IF S = {} THEN 0
    ELSE LET r == CHOOSE x \in S : TRUE
         IN  executions[r].tests_passed + SumPassed(S \ {r})

RECURSIVE SumFailed(_)
SumFailed(S) ==
    IF S = {} THEN 0
    ELSE LET r == CHOOSE x \in S : TRUE
         IN  executions[r].tests_failed + SumFailed(S \ {r})

\* C8: the counters of a completed suite row equal the sums of the counters
\* of the non-suite rows created for its constituents during the same run.
C8_SuiteCountersAreSums ==
    \A e \in ExecIds :
        (Completed(e) /\ executions[e].is_suite_run) =>
            /\ executions[e].tests_total = SumTotal(Constituents(e))
            /\ executions[e].tests_passed = SumPassed(Constituents(e))
            /\ executions[e].tests_failed = SumFailed(Constituents(e))

\* C9: a completed suite row is passed iff tests_total > 0 and
\* tests_failed = 0, failed iff tests_total > 0 and tests_failed > 0, and
\* error iff none of the supplied scripts was executable.
C9_SuiteStatus ==
    \A e \in ExecIds :
        (Completed(e) /\ executions[e].is_suite_run) =>
            /\ executions[e].status = PASSED <=>
                   (executions[e].tests_total > 0 /\ executions[e].tests_failed = 0)
            /\ executions[e].status = FAILED <=>
                   (executions[e].tests_total > 0 /\ executions[e].tests_failed > 0)
            /\ executions[e].status = ERROR <=> (runs[e].valid_scripts = {})

NoTestsExecuted(e) ==
    /\ executions[e].is_suite_run
    /\ executions[e].status = ERROR
    /\ executions[e].error_message = "no tests executed"

\* C10: a suite run requested over an empty set of executable scripts
\* produces a suite ExecutionResult with status error and error detail
\* "no tests executed".
C10_EmptySuiteIsError ==
    /\ (response = Respond("execute_project_suite", FALSE,
                           "No executable scripts found in the project"))
           => \E e \in ExecIds : NoTestsExecuted(e)
    /\ \A e \in ExecIds :
           (Completed(e) /\ executions[e].is_suite_run
            /\ runs[e].valid_scripts = {}) => NoTestsExecuted(e)

\* an error detail that tells the runner invocation timed out
TimeoutIndication(msg) == msg = "Robot Framework execution timed out"

\* C11: when the runner invocation of a record raises or outlasts the
\* invocation timeout, the record is persisted in error with completed_at
\* set and an error detail taken from the failure (a timeout indication
\* for a timeout).
C11_RunnerFailurePersisted ==
    [][\A t \in Threads :
          LET e == threads[t].exec IN
          (/\ threads[t].pc = "running"
           /\ threads'[t].pc = "idle"
           /\ runs'[e].invoked
           /\ (threads[t].overran \/ ~runs'[e].returned))
              => /\ executions'[e].status = ERROR
                 /\ executions'[e].completed_at.set
                 /\ executions'[e].error_message # NoneStr
                 /\ threads[t].overran
                        => TimeoutIndication(executions'[e].error_message)]_vars

\* C12: in every persisted state of every ExecutionResult, error_message
\* is non-null only if the status is error.
C12_ErrorDetailOnlyForError ==
    \A e \in ExecIds :
        executions[e].error_message # NoneStr => executions[e].status = ERROR

\* the executor has completed one row in error, with its detail, and
\* another one as passed or failed
C12_Witness ==
    \E e, f \in ExecIds :
        /\ Completed(e) /\ executions[e].status = ERROR
        /\ executions[e].error_message = "runner raised"
        /\ Completed(f) /\ executions[f].status \in {PASSED, FAILED}
        /\ executions[f].error_message = NoneStr

\* a step in which cancel_execution answered
CancelStep == response'.op = "cancel_execution" /\ response' # response

\* C13: cancel_execution on a pending or running ExecutionResult succeeds:
\* the row moves to error with detail "Cancelled by <actor>", completed_at
\* is set and the duration is computed.
C13_CancelSucceeds ==
    [][(CancelStep /\ \A e \in ExecIds : executions[e].status \in Cancellable)
          => /\ response'.success
             /\ \E e \in ExecIds :
                  /\ executions'[e].status = ERROR
                  /\ executions'[e].error_message = "Cancelled by user"
                  /\ executions'[e].completed_at.set
                  /\ executions'[e].duration_seconds # NoneNum]_vars

\* C14: cancel_execution on a passed, failed or error ExecutionResult
\* answers that the execution cannot be cancelled and changes no row.
C14_CancelTerminalRejected ==
    [][(CancelStep /\ \A e \in ExecIds : IsTerminal(e))
          => /\ response' = Respond("cancel_execution", FALSE,
                              "Execution cannot be cancelled in its current state")
             /\ executions' = executions]_vars

\* cancel_execution has refused to cancel when every row was terminal
C14_Witness ==
    /\ response = Respond("cancel_execution", FALSE,
                          "Execution cannot be cancelled in its current state")
    /\ ExecIds # {}
    /\ \A e \in ExecIds : Completed(e)

\* position of a status in pending -> running -> terminal
Rank(status) == IF status = PENDING THEN 0 ELSE IF status = RUNNING THEN 1 ELSE 2

\* the row shows nothing of a result
NoResultVisible(row) ==
    /\ ~row.completed_at.set
    /\ row.duration_seconds = NoneNum
    /\ row.tests_total = 0 /\ row.tests_passed = 0 /\ row.tests_failed = 0

\* C15: the persisted states of an ExecutionResult are pending, then
\* running, then one terminal status: the row is inserted in pending, the
\* runner is invoked only for a row persisted as running with started_at,
\* and completed_at, duration and counters are visible only in a terminal
\* row.
C15_ObservableOrder ==
    [][/\ \A e \in 1..Len(executions') :
             e > Len(executions) => /\ executions'[e].status = PENDING
                                    /\ NoResultVisible(executions'[e])
       /\ \A e \in ExecIds :
             /\ Rank(executions'[e].status) >= Rank(executions[e].status)
             /\ IsTerminal(e) => executions'[e].status = executions[e].status
             /\ (runs'[e].invoked /\ ~runs[e].invoked)
                    => /\ executions[e].status = RUNNING
                       /\ executions[e].started_at.set
             /\ executions'[e].status \notin Terminal
                    => NoResultVisible(executions'[e])]_vars

\* a row completed with its counters while another row is still running
C15_Witness ==
    \E e, f \in ExecIds :
        /\ Completed(e) /\ runs[e].returned /\ executions[e].tests_total = 1
        /\ executions[f].status = RUNNING /\ NoResultVisible(executions[f])

\* the recorders of a key whose capture process is alive
LiveRecorders(recs, session_key) ==
    {r \in 1..Len(recs) :
        recs[r].session_key = session_key /\ recs[r].process = "running"}

\* C16: when start_recording_session returns for a key that had an active
\* session, the prior process is terminated, the registry entry of the key
\* refers to the new recorder and that recorder's process is the one live
\* process of the key, whatever the outcome of the launch.
C16_OneSessionAfterRestart ==
    [][\A t \in Requests :
          (/\ requests[t].pc = "launch"
           /\ requests'[t].pc = "idle"
           /\ requests[t].prior # NoId)
              => LET session_key == requests[t].session_key
                 IN  /\ recorders'[requests[t].prior].process # "running"
                     /\ session_key \in DOMAIN active_recordings'
                     /\ active_recordings'[session_key] # requests[t].prior
                     /\ LiveRecorders(recorders', session_key)
                            = {active_recordings'[session_key]}]_vars

\* C17: whenever no call of a session function is under way, every live
\* capture process is the one the registry holds for its key (so each key
\* has at most one live process, and none is orphaned).
C17_RegistrySerialized ==
    (\A t \in Requests : requests[t].pc = "idle") =>
        \A r \in RecorderIds :
            recorders[r].process = "running" =>
                /\ Tracked(recorders[r].session_key)
                /\ active_recordings[recorders[r].session_key] = r

\* the result is a 'no active session' failure
NoActiveSession(res) ==
    /\ ~res.success
    /\ res.error \in {"No active recording session found",
                      "No active recording session"}

\* C18: stop_recording_session fails with 'no active session' exactly when
\* the key is not in the registry, and then leaves the registry unchanged;
\* for a tracked key it fails with 'empty output' when no content was
\* produced and returns the script content otherwise.
C18_StopOutcomes ==
    session_result.op = "stop_recording_session" =>
        /\ NoActiveSession(session_result) <=> ~session_result.tracked
        /\ ~session_result.tracked => ~session_result.changed
        /\ (session_result.tracked /\ ~session_result.produced)
               => /\ ~session_result.success
                  /\ session_result.error = "No script content was generated"
        /\ (session_result.tracked /\ session_result.produced)
               => /\ session_result.success
                  /\ session_result.script_content

\* C19: get_recording_status reports not_started, recording or completed
\* for every key, and recording exactly when the process handle is live.
C19_StatusValues ==
    session_result.op = "get_recording_status" =>
        /\ session_result.status \in {"not_started", "recording", "completed"}
        /\ session_result.status = "recording" <=> session_result.live

\* C20: when cleanup_all_sessions returns, the registry is empty and no
\* capture process that was tracked at the call is alive.
C20_CleanupAllSessions ==
    [][\A t \in Requests :
          (requests[t].pc = "clear" /\ requests'[t].pc = "idle")
              => /\ active_recordings' = NoSessions
                 /\ \A r \in requests[t].tracked :
                        recorders'[r].process # "running"]_vars

\* cleanup_all_sessions has returned after it found a live process in a
\* registry of two sessions
C20_Witness ==
    /\ session_result.op = "cleanup_all_sessions"
    /\ session_result.live
    /\ session_result.changed
    /\ active_recordings = NoSessions
    /\ Len(recorders) = 2
    /\ \A r \in RecorderIds : ~recorders[r].is_recording


(***************************************************************************)
(* Conversion                                                              *)
(***************************************************************************)
\* a call of convert_script_sync returns in this step
ConversionReturns(s) ==
    conversions[s].pc = "processing" /\ conversions'[s].pc = "idle"

\* C21: a translation never raises to its caller: it returns a result
\* tagged success or failure, and when it returns the script's
\* conversion_status is 'completed' (success) or 'failed' with
\* conversion_error populated, never 'processing'.
C21_ConversionReturnsTagged ==
    [][\A s \in ScriptIds :
         ConversionReturns(s)
         => /\ ~conversion_result'.raised
            /\ scripts'[s].present
               => /\ scripts'[s].conversion_status =
                        IF conversion_result'.success THEN "completed" ELSE "failed"
                  /\ ~conversion_result'.success
                     => scripts'[s].conversion_error # NoneStr]_vars

\* C22: conversion_error is non-null only if conversion_status is 'failed',
\* after any sequence of conversions, manual edits and uploads.
C22_ErrorOnlyWhenFailed ==
    \A s \in ScriptIds :
      (ScriptExists(s) /\ scripts[s].conversion_error # NoneStr)
      => scripts[s].conversion_status = "failed"

(***************************************************************************)
(* Deleting scripts, pass rate                                             *)
(***************************************************************************)
\* C23: deleting a script deletes every ExecutionResult that references it:
\* the step that removes the script removes all of those rows (and no row
\* refers to the script afterwards).
C23_DeleteRemovesExecutions ==
    [][\A s \in ScriptIds :
         (scripts[s].present /\ ~scripts'[s].present)
         => LET referencing == {e \in ExecIds : executions[e].script_id = s}
            IN  /\ Len(executions') = Len(executions) - Cardinality(referencing)
                /\ \A e \in 1..Len(executions') : executions'[e].script_id # s]_vars

\* C24: whenever the executor has written the counters of a completed run,
\* pass_rate is written from them: the passed share of tests_total (in
\* percent), and zero, not null, when tests_total is zero.
C24_PassRateFromCounters ==
    \A e \in ExecIds :
      (Completed(e) /\ runs[e].success)
      => /\ executions[e].pass_rate # NoneNum
         /\ executions[e].pass_rate =
               IF executions[e].tests_total = 0 THEN 0
               ELSE (100 * executions[e].tests_passed) \div executions[e].tests_total

(***************************************************************************)
(* Stopping a capture process                                              *)
(***************************************************************************)
EmptyOutput(res) == ~res.success /\ res.error = "No script content was generated"

\* C25: stop_recording sends the graceful signal first; the forceful kill
\* is sent only after the bounded wait has timed out, and at most once;
\* when it returns success or the 'empty output' failure, the process is
\* no longer alive.
C25_GracefulThenForceful ==
    [][\A t \in Requests :
         (/\ requests[t].pc = "stopping"
          /\ requests'[t].pc = "idle"
          /\ session_result'.success \/ EmptyOutput(session_result'))
         => LET sent == session_result'.signals
                forceful == {i \in 1..Len(sent) :
                               sent[i] \in {ForcefulSignal(TRUE), ForcefulSignal(FALSE)}}
            IN  /\ sent # << >>
                /\ sent[1] \in {GracefulSignal(TRUE), GracefulSignal(FALSE)}
                /\ Cardinality(forceful) <= 1
                /\ forceful # {} => session_result'.timed_out
                /\ recorders'[requests[t].recorder].process # "running"]_vars

\* a stop whose bounded wait expired has returned the recorded content
C25_Witness ==
    /\ session_result.op = "stop_recording_session"
    /\ session_result.success
    /\ session_result.timed_out
    /\ Len(session_result.signals) = 2

(***************************************************************************)
(* The written artifact                                                    *)
(***************************************************************************)
\* C26: after a successful translation the robot artifact that was written
\* (the robot_script of the result) contains both the '*** Settings ***'
\* and the '*** Test Cases ***' header.
C26_ArtifactHasSections ==
    (conversion_result.script_id # NoId /\ conversion_result.success)
    => /\ HasSection(conversion_result.robot_script, SettingsHeader)
       /\ HasSection(conversion_result.robot_script, TestCasesHeader)

C28_AcknowledgedRunTerminates ==
    \A t \in Threads :
      /\ (threads[t].pc = "async") ~> (threads[t].pc = "pending")
      /\ \A e \in 1..MaxExecutions :
           (threads[t].pc = "pending" /\ threads[t].exec = e)
              ~> (e \in ExecIds /\ IsTerminal(e))

(***************************************************************************)
(* Isolation of recording sessions                                         *)
(***************************************************************************)
\* recorder r was created for the pair (project_name, script_name)
RecorderOf(r, project_name, script_name) ==
    /\ recorders[r].project_name = sanitize_filename(project_name)
    /\ recorders[r].script_name = sanitize_filename(script_name)

\* this step terminates recorder r or takes its entry out of the registry
Disturbed(r) ==
    \/ recorders'[r] # recorders[r]
    \/ \E k \in DOMAIN active_recordings :
         /\ active_recordings[k] = r
         /\ k \notin DOMAIN active_recordings' \/ active_recordings'[k] # r

\* C29: the sessions of two distinct (project name, script name) pairs never
\* interfere: a start, stop or status call for one pair never terminates,
\* replaces, removes or reports the recorder of another pair (the registry
\* key is injective on the pairs).
C29_SessionsIsolated ==
    [][/\ \A t \in Requests :
            (requests'[t] # requests[t]
             /\ "clear" \notin {requests[t].pc, requests'[t].pc})
            => LET call == IF requests[t].pc = "idle" THEN requests'[t]
                           ELSE requests[t]
               IN  \A r \in RecorderIds :
                     Disturbed(r)
                     => RecorderOf(r, call.project_name, call.script_name)
       /\ (session_result'.op = "get_recording_status"
           /\ requests' = requests /\ session_result'.tracked)
          => RecorderOf(active_recordings[session_result'.session_key],
                        session_result'.project_name,
                        session_result'.script_name)]_vars

(***************************************************************************)
(* Robot artifacts of a project                                            *)
(***************************************************************************)
\* script s is 'completed' and its artifact is among the files
ArtifactOnDisk(rows, disk, s) ==
    /\ rows[s].present
    /\ rows[s].conversion_status = "completed"
    /\ rows[s].robot_script_path # NoPath
    /\ rows[s].robot_script_path \in disk

\* C30: two distinct TestScripts of a project never share a
\* robot_script_path, and deleting one script never removes the file of
\* another script that is still 'completed'.
C30_ArtifactsNotShared ==
    /\ [](\A s, o \in ScriptIds :
            (s # o /\ ScriptExists(s) /\ ScriptExists(o)
             /\ scripts[s].robot_script_path # NoPath)
            => scripts[s].robot_script_path # scripts[o].robot_script_path)
    /\ [][\A s, o \in ScriptIds :
            (s # o /\ scripts[s].present /\ ~scripts'[s].present
             /\ ArtifactOnDisk(scripts, files, o))
            => ArtifactOnDisk(scripts', files', o)]_vars

====
